---- MODULE Spec2Model ----
(***************************************************************************)
(* A model of the IPTV scraper (scraper.py): the persistent channel        *)
(* numbering kept in channel_mapping.json, the listing parser, the         *)
(* thread-pool fan-out that resolves one stream URL per channel, the       *)
(* pattern-based extraction of a stream URL from a player page, and the    *)
(* writing of the catalog (channels.json) and the playlist (playlist.m3u). *)
(***************************************************************************)
EXTENDS Integers, Sequences, FiniteSets, TLC

(***************************************************************************)
(* Bounds of the model.                                                    *)
(***************************************************************************)
\* longest listing document, in <li> entries
MaxLen == 3
\* number of successive runs of the program (each a fresh process)
MaxRuns == 2
\* the max_workers tried besides the default
MaxWorkers == 2
\* longest player page, in fragments, handed to the resolver on its own
MaxBody == 3

\* the default of max_workers
DefaultMaxWorkers == 8

\* the default of delay, in tenths of a second
DefaultDelay == 1

(***************************************************************************)
(* Python values of a channel number: an int, or a str, a sequence of       *)
(* characters: 0..9 are the decimal digits and NotADigit is a letter.  A    *)
(* str the program makes is a decimal numeral, most significant digit      *)
(* first.  json.dump writes an int as a JSON number and a str as a JSON     *)
(* string, and json.load gives them back as they were written.             *)
(***************************************************************************)
IntV(n) == [t |-> "int", n |-> n]
StrV(s) == [t |-> "str", s |-> s]

RECURSIVE Digits(_)
\* str(n) for an int n >= 0: the decimal digits of n
Digits(n) == IF n < 10 THEN <<n>> ELSE Append(Digits(n \div 10), n % 10)

RECURSIVE ParseDigits(_)
\* the value of a decimal numeral
ParseDigits(s) ==
    IF s = <<>> THEN 0
    ELSE 10 * ParseDigits(SubSeq(s, 1, Len(s) - 1)) + s[Len(s)]

\* str(n)
Str(n) == StrV(Digits(n))

\* a character that is not a decimal digit, and greater than the digits as
\* the letters are
NotADigit == 10

\* whether int(v) returns: v is an int, or a str that is a decimal numeral
IsNumeral(v) ==
    \/ v.t = "int"
    \/ v.t = "str" /\ v.s # <<>> /\ \A i \in 1..Len(v.s) : v.s[i] \in 0..9

\* int(v) for v an int or a decimal str
ToInt(v) == IF v.t = "int" THEN v.n ELSE ParseDigits(v.s)

RECURSIVE StrLess(_, _)
\* a < b for two str: lexicographic, a proper prefix being smaller
StrLess(a, b) ==
    IF b = <<>> THEN FALSE
    ELSE IF a = <<>> THEN TRUE
    ELSE IF a[1] # b[1] THEN a[1] < b[1]
    ELSE StrLess(Tail(a), Tail(b))

\* a < b for two values of the same type
Less(a, b) == IF a.t = "int" THEN a.n < b.n ELSE StrLess(a.s, b.s)

(***************************************************************************)
(* Dictionaries: functions on a finite set of keys.                        *)
(***************************************************************************)
EmptyDict == [k \in {} |-> IntV(0)]
Put(d, k, v) == [x \in DOMAIN d \cup {k} |-> IF x = k THEN v ELSE d[x]]

RECURSIVE SetMax(_)
SetMax(S) ==
    IF S = {} THEN 0
    ELSE LET x == CHOOSE y \in S : TRUE
             m == SetMax(S \ {x})
         IN IF x > m THEN x ELSE m

\* max(int(v) for v in d.values())
MaxValue(d) == SetMax({ToInt(d[k]) : k \in DOMAIN d})

(***************************************************************************)
(* _assign_channel_number: the number of a name already in the mapping is  *)
(* returned as stored; a new name gets max + 1 (1 in an empty mapping),    *)
(* which is stored as a str and returned as an int.                        *)
(***************************************************************************)
NextNumberBug(d) == Cardinality(DOMAIN d) + 1
NextNumber(d) == IF DOMAIN d # {} THEN MaxValue(d) + 1 ELSE 1

StoredNumberBug(n) == Str(n + 1)
StoredNumber(n) == Str(n)

AssignMappingBug(d, name) == Put(d, name, StoredNumber(NextNumber(d)))
AssignMapping(d, name) ==
    IF name \in DOMAIN d THEN d ELSE Put(d, name, StoredNumber(NextNumber(d)))

AssignResult(d, name) ==
    IF name \in DOMAIN d THEN d[name] ELSE IntV(NextNumber(d))

\* whether _assign_channel_number raises: the name is new and int(v) raises
\* ValueError on a value of the mapping
AssignRaises(d, name) ==
    name \notin DOMAIN d /\ \E k \in DOMAIN d : ~IsNumeral(d[k])

(***************************************************************************)
(* The listing document: a sequence of <li> entries.  An entry has or      *)
(* lacks an <a class="channel">, whose onclick holds "stream=<digits>" or  *)
(* does not (NoToken), and has or lacks an <img>, whose alt is a name or   *)
(* is missing (NoAlt).                                                     *)
(***************************************************************************)
NoToken == "-"
NoAlt == "-"

Entry(link, tok, img, alt, src) ==
    [link |-> link, onclick |-> tok, img |-> img, alt |-> alt, src |-> src]

EntrySet ==
    { Entry(TRUE, "10", TRUE, "A", "a.png"),
      Entry(TRUE, "20", TRUE, "B", "b.png"),
      Entry(TRUE, "40", TRUE, NoAlt, "d.png"),
      Entry(TRUE, NoToken, TRUE, "B", "b.png"),
      Entry(TRUE, "30", FALSE, NoAlt, "") }

RECURSIVE SeqsUpTo(_, _)
SeqsUpTo(S, n) ==
    IF n = 0 THEN {<<>>}
    ELSE LET P == SeqsUpTo(S, n - 1)
         IN P \cup {Append(p, x) : p \in {q \in P : Len(q) = n - 1}, x \in S}

Listings == SeqsUpTo(EntrySet, MaxLen)

\* None
None == [t |-> "None"]

\* urljoin(base_url, src) for a relative src
UrlJoin(src) == "http://103.144.89.251/" \o src

\* the record parse_html builds for an entry it keeps
ChannelInfo(e, number) ==
    [ number |-> number,
      name |-> IF e.alt = NoAlt THEN "Channel " \o e.onclick ELSE e.alt,
      stream_id |-> e.onclick,
      logo |-> UrlJoin(e.src),
      m3u8_url |-> None ]

\* an entry parse_html keeps: the three `continue` of the loop skip the others
Kept(e) == e.link /\ e.onclick # NoToken /\ e.img

(***************************************************************************)
(* self.channels.sort(key=lambda x: x['number']): a stable sort that       *)
(* compares the keys with <, which raises TypeError between an int and a   *)
(* str.                                                                    *)
(***************************************************************************)
MixedTypes(chs) ==
    \E i, j \in 1..Len(chs) : chs[i].number.t # chs[j].number.t

RECURSIVE InsertSorted(_, _)
\* c placed after every element of the sorted s that is not greater than it
InsertSorted(s, c) ==
    IF s = <<>> THEN <<c>>
    ELSE IF Less(c.number, s[1].number) THEN <<c>> \o s
    ELSE <<s[1]>> \o InsertSorted(Tail(s), c)

RECURSIVE SortedByNumber(_)
SortedByNumber(chs) ==
    IF chs = <<>> THEN <<>>
    ELSE InsertSorted(SortedByNumber(SubSeq(chs, 1, Len(chs) - 1)), chs[Len(chs)])

(***************************************************************************)
(* The files of the program, which outlive a run.                          *)
(***************************************************************************)
FileMissing == [kind |-> "missing", dict |-> EmptyDict]
FileCorrupt == [kind |-> "corrupt", dict |-> EmptyDict]
FileDict(d) == [kind |-> "dict", dict |-> d]

\* the mapping files a run may find at its start
InitialFiles ==
    { FileMissing,
      FileCorrupt,
      FileDict(EmptyDict),
      FileDict([k \in {"A"} |-> Str(1)]),
      FileDict([k \in {"A", "B"} |-> IF k = "A" THEN Str(2) ELSE Str(10)]),
      FileDict([k \in {"B", "C"} |-> IF k = "B" THEN IntV(9) ELSE IntV(3)]) }

\* _load_channel_mapping
LoadChannelMapping(f) == IF f.kind = "dict" THEN f.dict ELSE EmptyDict


(***************************************************************************)
(* fetch_m3u8_url.  A URL found in a player page is its text and what the  *)
(* code asks of it: whether it contains ".m3u8", contains "stream",        *)
(* starts with "http", and contains one of the excluded fragments (css,    *)
(* js, icon, logo, image).  base_url contains none of these fragments, so  *)
(* joining a relative URL to it does not change the last answer.           *)
(***************************************************************************)
Url(text, m3u8, stream, http, excl) ==
    [t |-> "url", text |-> text, m3u8 |-> m3u8, stream |-> stream,
     http |-> http, excl |-> excl]

(***************************************************************************)
(* A player page is a sequence of fragments in body order, each a place    *)
(* where a URL stands:                                                     *)
(*   src_attr      <video src="U">                                         *)
(*   hls_src       src: "U"            (a script configuration)            *)
(*   source_tag    <source src="U">                                        *)
(*   quoted        "U"                 (anywhere else)                     *)
(*   bare          U                   (unquoted, absolute)                *)
(*   data_src      <video data-src="U">                                    *)
(*   iframe        <iframe src="U">                                        *)
(*   iframe_upper  <IFRAME src="U">                                        *)
(***************************************************************************)
Frag(kind, url) == [kind |-> kind, url |-> url]

\* the patterns of m3u8_patterns, in the order of the list
m3u8_patterns ==
    << "src", "hls_config", "source_tag", "quoted", "unquoted", "data_src",
       "iframe" >>

\* whether pattern p, one of those that name the place of the URL, matches
\* at fragment f (re.IGNORECASE)
PatternMatches(p, f) ==
    CASE p = "src" ->
           /\ f.kind \in {"src_attr", "source_tag", "data_src", "iframe",
                          "iframe_upper"}
           /\ f.url.m3u8
      [] p = "hls_config" -> f.kind = "hls_src" /\ f.url.m3u8
      [] p = "source_tag" -> f.kind = "source_tag" /\ f.url.m3u8
      [] p = "data_src" -> f.kind = "data_src" /\ f.url.m3u8
      [] p = "iframe" -> f.kind \in {"iframe", "iframe_upper"}

RECURSIVE FindPlaced(_, _)
FindPlaced(p, body) ==
    IF body = <<>> THEN <<>>
    ELSE (IF PatternMatches(p, Head(body)) THEN <<Head(body).url>> ELSE <<>>)
         \o FindPlaced(p, Tail(body))

RECURSIVE GapText(_)
GapText(gap) ==
    IF gap = <<>> THEN ">" ELSE ">" \o Head(gap).url.text \o "<" \o GapText(Tail(gap))

\* the text between the closing quote of a quoted URL and the opening quote
\* of the next one, which holds the unquoted URLs of gap
GapUrl(gap) ==
    Url(GapText(gap), TRUE, \E i \in 1..Len(gap) : gap[i].url.stream, FALSE,
        \E i \in 1..Len(gap) : gap[i].url.excl)

RECURSIVE FindQuoted(_, _, _)
(***************************************************************************)
(* The matches of the pattern of quoted URLs, which takes any two          *)
(* successive quote characters with ".m3u8" between them.  When a quoted   *)
(* URL holds no ".m3u8", its closing quote is tried as an opening one      *)
(* (pending), and matches with the opening quote of the next quoted URL    *)
(* when an unquoted ".m3u8" URL stands between them (gap); the next quoted *)
(* URL is then passed over, and its closing quote is pending in turn.      *)
(***************************************************************************)
FindQuoted(body, pending, gap) ==
    IF body = <<>> THEN <<>>
    ELSE LET f == Head(body) IN
         IF f.kind = "bare"
         THEN FindQuoted(Tail(body), pending, IF pending THEN Append(gap, f) ELSE gap)
         ELSE IF pending /\ \E i \in 1..Len(gap) : gap[i].url.m3u8
         THEN <<GapUrl(gap)>> \o FindQuoted(Tail(body), TRUE, <<>>)
         ELSE IF f.url.m3u8
         THEN <<f.url>> \o FindQuoted(Tail(body), FALSE, <<>>)
         ELSE FindQuoted(Tail(body), TRUE, <<>>)

RECURSIVE FindUnquoted(_)
\* the matches of the pattern of unquoted URLs: an absolute ".m3u8" URL up
\* to the next space or angle bracket, which takes the closing quote of a
\* quoted URL with it
FindUnquoted(body) ==
    IF body = <<>> THEN <<>>
    ELSE LET f == Head(body) IN
         (IF f.url.m3u8 /\ f.url.http
          THEN IF f.kind = "bare" THEN <<f.url>>
               ELSE << [f.url EXCEPT !.text = @ \o "\""] >>
          ELSE <<>>) \o FindUnquoted(Tail(body))

\* re.findall(pattern, html_content, re.IGNORECASE): the matches in body order
FindAll(p, body) ==
    IF p = "quoted" THEN FindQuoted(body, FALSE, <<>>)
    ELSE IF p = "unquoted" THEN FindUnquoted(body)
    ELSE FindPlaced(p, body)

\* the filter "for m3u8 or valid stream URLs"
StreamLike(u) == u.m3u8 \/ u.stream \/ u.http

\* urljoin(self.base_url, url) for a url that does not start with "http"
Normalize(u) ==
    IF u.http THEN u
    ELSE [u EXCEPT !.text = "http://103.144.89.251/" \o u.text, !.http = TRUE]

\* the filter of "common false positives", applied to the normalized URL
ExcludedBug(u) == FALSE
Excluded(u) == Normalize(u).excl

RECURSIVE ScanMatches(_)
\* the inner loop over the matches of one pattern
ScanMatches(ms) ==
    IF ms = <<>> THEN None
    ELSE IF StreamLike(Head(ms)) /\ ~Excluded(Head(ms))
         THEN Normalize(Head(ms))
         ELSE ScanMatches(Tail(ms))

RECURSIVE ScanPatterns(_, _)
\* the outer loop over m3u8_patterns
ScanPatterns(ps, body) ==
    IF ps = <<>> THEN None
    ELSE LET r == ScanMatches(FindAll(Head(ps), body))
         IN IF r # None THEN r ELSE ScanPatterns(Tail(ps), body)

RECURSIVE IframeFallback(_)
\* re.search(r'<iframe[^>]+src=["\']([^"\']+)["\']', html_content): case
\* sensitive, a non-empty src
IframeFallback(body) ==
    IF body = <<>> THEN None
    ELSE IF Head(body).kind = "iframe" /\ Head(body).url.text # ""
         THEN Normalize(Head(body).url)
         ELSE IframeFallback(Tail(body))

\* a response of player.php: a transport failure (timeout, connection error,
\* error status), or a page
ErrorResponse == [status |-> "error", body |-> <<>>]
OkResponse(body) == [status |-> "ok", body |-> body]

FetchM3u8Url(resp) ==
    IF resp.status # "ok" THEN None
    ELSE LET r == ScanPatterns(m3u8_patterns, resp.body)
         IN IF r # None THEN r ELSE IframeFallback(resp.body)

\* what player.php?stream=<tok> may answer during a run
Responses(tok) ==
    { ErrorResponse,
      OkResponse(<< Frag("quoted", Url("player.css", FALSE, FALSE, FALSE, TRUE)) >>),
      OkResponse(<< Frag("quoted", Url("logo.png", FALSE, FALSE, FALSE, TRUE)),
                    Frag("source_tag",
                         Url("live/" \o tok \o ".m3u8", TRUE, FALSE, FALSE, FALSE)) >>) }

(***************************************************************************)
(* The state: the files, which outlive a run, the listing the server       *)
(* serves, and the IPTVScraper object of the current run.                  *)
(***************************************************************************)
NotWritten == [written |-> FALSE, content |-> <<>>]
Written(content) == [written |-> TRUE, content |-> content]

VARIABLES
    mapping_file,     \* channel_mapping.json on disk
    json_file,        \* what the run has written to channels.json
    m3u_file,         \* what the run has written to playlist.m3u
    listing,          \* the listing document the server serves
    run,              \* the number of the current run
    pc,               \* where the run is
    error,            \* the exception that ended the run, if one did
    max_workers,      \* self.max_workers
    fetch_urls,       \* the fetch_urls argument of scrape_streams
    channel_mapping,  \* self.channel_mapping
    pos,              \* entries of channels_list the parse loop has handled
    channels,         \* self.channels
    futures,          \* the futures of scrape_streams, in submission order
    saves,            \* how many times the run has written the mapping file
    listingB,         \* the listing of a second scraper started on the same files
    pcB,              \* where the second scraper is
    channel_mappingB, \* its self.channel_mapping
    posB,             \* the entries its parse loop has handled
    channelsB,        \* its self.channels
    page,             \* a response of player.php handed to fetch_m3u8_url
    found,            \* what fetch_m3u8_url returned for it
    rpc,              \* whether fetch_m3u8_url has been called on it
    delay,            \* the delay argument of scrape_streams
    sleeps,           \* how many times the run has called time.sleep(delay)
    sample_m3u,       \* what example_5_create_m3u_from_json has written
    pcE               \* where example_5_create_m3u_from_json is

vars == << mapping_file, json_file, m3u_file, listing, run, pc, error,
           max_workers, fetch_urls, channel_mapping, pos, channels, futures,
           saves, listingB, pcB, channel_mappingB, posB, channelsB, page,
           found, rpc, delay, sleeps, sample_m3u, pcE >>

files == << mapping_file, json_file, m3u_file, saves, sleeps >>
second == << listingB, pcB, channel_mappingB, posB, channelsB >>
resolver == << page, found, rpc >>
example == << sample_m3u, pcE >>
config == << listing, run, max_workers, fetch_urls, delay, second, resolver,
             example >>

\* the values of max_workers tried
WorkerChoices == {MaxWorkers, DefaultMaxWorkers}

\* no second scraper
NoSecond ==
    /\ listingB = <<>>
    /\ pcB = "off"
    /\ channel_mappingB = EmptyDict
    /\ posB = 0
    /\ channelsB = <<>>

\* no call of fetch_m3u8_url outside a run
NoPage ==
    /\ page = ErrorResponse
    /\ found = None
    /\ rpc = "off"

\* example_5_create_m3u_from_json is not run
NoExample ==
    /\ sample_m3u = NotWritten
    /\ pcE = "off"

Init ==
    /\ NoSecond
    /\ NoPage
    /\ NoExample
    /\ delay = DefaultDelay
    /\ sleeps = 0
    /\ mapping_file \in InitialFiles
    /\ json_file = NotWritten
    /\ m3u_file = NotWritten
    /\ listing \in Listings
    /\ run = 1
    /\ pc = "new"
    /\ error = "none"
    /\ max_workers \in WorkerChoices
    /\ fetch_urls \in BOOLEAN
    /\ channel_mapping = EmptyDict
    /\ pos = 0
    /\ channels = <<>>
    /\ futures = <<>>
    /\ saves = 0

\* IPTVScraper.__init__, which loads the mapping
Construct ==
    /\ pc = "new"
    /\ channel_mapping' = LoadChannelMapping(mapping_file)
    /\ pc' = "fetch"
    /\ UNCHANGED << files, config, error, pos, channels, futures >>

\* parse_html obtains the listing document
FetchListing ==
    /\ pc = "fetch"
    /\ pc' = "parse"
    /\ UNCHANGED << files, config, error, channel_mapping, pos, channels, futures >>

\* parse_html cannot obtain the listing document and raises
FetchListingError ==
    /\ pc = "fetch"
    /\ pc' = "crashed"
    /\ error' = "fetch"
    /\ UNCHANGED << files, config, channel_mapping, pos, channels, futures >>

\* one turn of the loop of parse_html over channels_list: an entry is
\* skipped by a `continue`, or by the except clause when the assignment of
\* its number raises
ParseItem ==
    /\ pc = "parse"
    /\ pos < Len(listing)
    /\ LET e == listing[pos + 1] IN
         IF Kept(e) /\ ~AssignRaises(channel_mapping, ChannelInfo(e, IntV(0)).name)
         THEN LET name == ChannelInfo(e, IntV(0)).name IN
                /\ channel_mapping' = AssignMapping(channel_mapping, name)
                /\ channels' = Append(channels,
                        ChannelInfo(e, AssignResult(channel_mapping, name)))
         ELSE UNCHANGED << channel_mapping, channels >>
    /\ pos' = pos + 1
    /\ UNCHANGED << files, config, pc, error, futures >>

\* where scrape_streams goes after parse_html
AfterParse(chs) ==
    IF ~fetch_urls THEN "save_json"
    ELSE IF Len(chs) = 0 THEN "collect"
    ELSE "submit"

\* the end of parse_html: the sort, which may raise, then _save_channel_mapping
FinishParse ==
    /\ pc = "parse"
    /\ pos = Len(listing)
    /\ IF MixedTypes(channels)
       THEN /\ pc' = "crashed"
            /\ error' = "TypeError"
            /\ UNCHANGED << files, channels >>
       ELSE /\ channels' = SortedByNumber(channels)
            /\ mapping_file' = FileDict(channel_mapping)
            /\ saves' = saves + 1
            /\ pc' = AfterParse(channels)
            /\ UNCHANGED << json_file, m3u_file, sleeps, error >>
    /\ UNCHANGED << config, channel_mapping, pos, futures >>

(***************************************************************************)
(* The fan-out of scrape_streams.  The main thread submits one task per    *)
(* channel, then takes the futures as they complete; the threads of the    *)
(* pool, at most max_workers of them, take the tasks in submission order.  *)
(***************************************************************************)
Future(i, ch) ==
    [channel |-> i, stream_id |-> ch.stream_id, state |-> "queued",
     result |-> None, attempts |-> 0]

Running == {i \in 1..Len(futures) : futures[i].state = "running"}
Queued == {i \in 1..Len(futures) : futures[i].state = "queued"}

\* executor.submit(self.fetch_m3u8_url, channel['stream_id'], idx, total)
Submit ==
    /\ pc = "submit"
    /\ LET i == Len(futures) + 1 IN
         /\ futures' = Append(futures, Future(i, channels[i]))
         /\ pc' = IF i = Len(channels) THEN "collect" ELSE "submit"
    /\ UNCHANGED << files, config, error, channel_mapping, pos, channels >>

\* a thread of the pool is free to take a task
WorkerFreeBug == TRUE
WorkerFree == Cardinality(Running) < max_workers

\* a thread of the pool takes the oldest queued task and sends its request
StartTask(i) ==
    /\ pc \in {"submit", "collect"}
    /\ i \in Queued
    /\ \A j \in Queued : i <= j
    /\ WorkerFree
    /\ futures' = [futures EXCEPT ![i].state = "running",
                                  ![i].attempts = @ + 1]
    /\ UNCHANGED << files, config, pc, error, channel_mapping, pos, channels >>

\* the state of a future whose call of fetch_m3u8_url has returned r: the
\* call is not made again, whatever it returned
AfterRequestBug(r) == IF r = None THEN "queued" ELSE "done"
AfterRequest(r) == "done"

\* a task that would also write to the registry
FinishTaskBug(i, resp) ==
    /\ i \in Running
    /\ futures' = [futures EXCEPT ![i].state = AfterRequest(FetchM3u8Url(resp)),
                                  ![i].result = FetchM3u8Url(resp)]
    /\ channel_mapping' = Put(channel_mapping, futures[i].stream_id, Str(0))
    /\ UNCHANGED << files, config, pc, error, pos, channels >>

\* the request of a task ends, and fetch_m3u8_url returns
FinishTask(i, resp) ==
    /\ i \in Running
    /\ futures' = [futures EXCEPT ![i].state = AfterRequest(FetchM3u8Url(resp)),
                                  ![i].result = FetchM3u8Url(resp)]
    /\ UNCHANGED << files, config, pc, error, channel_mapping, pos, channels >>

\* the channel a completed future's result goes to: futures_map[future]
ResultChannelBug(i) == (i % Len(channels)) + 1
ResultChannel(i) == futures[i].channel

\* the loop over as_completed(futures_map) takes a completed future
Collect(i) ==
    /\ pc = "collect"
    /\ i \in 1..Len(futures)
    /\ futures[i].state = "done"
    /\ channels' = [channels EXCEPT ![ResultChannel(i)].m3u8_url = futures[i].result]
    /\ futures' = [futures EXCEPT ![i].state = "collected"]
    /\ UNCHANGED << files, config, pc, error, channel_mapping, pos >>

\* the sleeps of a fan-out that has slept n times: one more if delay > 0
AfterDelayBug(n) == n + Len(channels)
AfterDelay(n) == IF delay > 0 THEN n + 1 ELSE n

\* every future has been taken: the main thread sleeps for the delay, the
\* with block ends and scrape_streams returns, which drops futures_map
ExitPool ==
    /\ pc = "collect"
    /\ \A i \in 1..Len(futures) : futures[i].state = "collected"
    /\ sleeps' = AfterDelay(sleeps)
    /\ pc' = "save_json"
    /\ futures' = <<>>
    /\ UNCHANGED << mapping_file, json_file, m3u_file, saves, config, error,
                    channel_mapping, pos, channels >>

\* save_json
SaveJson ==
    /\ pc = "save_json"
    /\ json_file' = Written(channels)
    /\ pc' = "save_m3u"
    /\ UNCHANGED << mapping_file, m3u_file, saves, sleeps, config, error,
                    channel_mapping, pos, channels, futures >>

RECURSIVE M3uLines(_)
\* the #EXTINF/URL pairs save_m3u writes
M3uLines(chs) ==
    IF chs = <<>> THEN <<>>
    ELSE (IF Head(chs).m3u8_url # None
          THEN << [logo |-> Head(chs).logo, name |-> Head(chs).name,
                   url |-> Head(chs).m3u8_url] >>
          ELSE <<>>) \o M3uLines(Tail(chs))

\* save_m3u
SaveM3u ==
    /\ pc = "save_m3u"
    /\ m3u_file' = Written(M3uLines(channels))
    /\ pc' = "done"
    /\ UNCHANGED << mapping_file, json_file, saves, sleeps, config, error,
                    channel_mapping, pos, channels, futures >>

\* the program is started again, on the listing as it is
NewRun ==
    /\ pc \in {"done", "crashed"}
    /\ run < MaxRuns
    /\ run' = run + 1
    /\ pc' = "new"
    /\ error' = "none"
    /\ max_workers' \in WorkerChoices
    /\ fetch_urls' \in BOOLEAN
    /\ channel_mapping' = EmptyDict
    /\ pos' = 0
    /\ channels' = <<>>
    /\ futures' = <<>>
    /\ json_file' = NotWritten
    /\ m3u_file' = NotWritten
    /\ saves' = 0
    /\ sleeps' = 0
    /\ UNCHANGED << mapping_file, listing, delay, second, resolver, example >>

Next ==
    \/ Construct
    \/ FetchListing
    \/ FetchListingError
    \/ ParseItem
    \/ FinishParse
    \/ Submit
    \/ \E i \in 1..Len(futures) : StartTask(i)
    \/ \E i \in 1..Len(futures) : \E resp \in Responses(futures[i].stream_id) : FinishTask(i, resp)
    \/ \E i \in 1..Len(futures) : Collect(i)
    \/ ExitPool
    \/ SaveJson
    \/ SaveM3u
    \/ NewRun

Spec == Init /\ [][Next]_vars

(***************************************************************************)
(* Two scrapers started on the same mapping file, each with its own        *)
(* listing of the same display names; the second parses once the first     *)
(* has parsed, and before the first saves.                                 *)
(***************************************************************************)
KeptEntries == {e \in EntrySet : Kept(e)}
PairListings == SeqsUpTo(KeptEntries, MaxLen)
Names(doc) == {ChannelInfo(doc[i], IntV(0)).name : i \in {j \in 1..Len(doc) : Kept(doc[j])}}

InitPair ==
    /\ NoPage
    /\ NoExample
    /\ delay = DefaultDelay
    /\ sleeps = 0
    /\ mapping_file \in InitialFiles
    /\ json_file = NotWritten
    /\ m3u_file = NotWritten
    /\ listing \in PairListings
    /\ listingB \in {l \in PairListings : Names(l) = Names(listing)}
    /\ run = 1
    /\ pc = "new"
    /\ pcB = "new"
    /\ error = "none"
    /\ max_workers = DefaultMaxWorkers
    /\ fetch_urls = FALSE
    /\ channel_mapping = EmptyDict
    /\ channel_mappingB = EmptyDict
    /\ pos = 0
    /\ posB = 0
    /\ channels = <<>>
    /\ channelsB = <<>>
    /\ futures = <<>>
    /\ saves = 0

first == << files, listing, run, max_workers, fetch_urls, delay, resolver,
            example, pc, error, channel_mapping, pos, channels, futures >>

\* IPTVScraper.__init__ of the second scraper, then its fetch of the listing
ConstructB ==
    /\ pcB = "new"
    /\ pc = "parse" /\ pos = Len(listing)
    /\ channel_mappingB' = LoadChannelMapping(mapping_file)
    /\ pcB' = "parse"
    /\ UNCHANGED << first, listingB, posB, channelsB >>

\* one turn of the loop of parse_html of the second scraper
ParseItemB ==
    /\ pcB = "parse"
    /\ posB < Len(listingB)
    /\ LET e == listingB[posB + 1] IN
         IF Kept(e) /\ ~AssignRaises(channel_mappingB, ChannelInfo(e, IntV(0)).name)
         THEN LET name == ChannelInfo(e, IntV(0)).name IN
                /\ channel_mappingB' = AssignMapping(channel_mappingB, name)
                /\ channelsB' = Append(channelsB,
                        ChannelInfo(e, AssignResult(channel_mappingB, name)))
         ELSE UNCHANGED << channel_mappingB, channelsB >>
    /\ posB' = posB + 1
    /\ UNCHANGED << first, listingB, pcB >>

NextPair ==
    \/ Construct
    \/ FetchListing
    \/ ParseItem
    \/ ConstructB
    \/ ParseItemB

SpecPair == InitPair /\ [][NextPair]_vars

(***************************************************************************)
(* The constructor and parse_html on their own, on listings that also hold *)
(* an entry without <a class="channel"> and an entry whose <img> has an    *)
(* empty alt, and on mapping files that also hold a value that is not a    *)
(* number.                                                                 *)
(***************************************************************************)
ParseEntrySet ==
    EntrySet \cup { Entry(FALSE, NoToken, TRUE, "C", "c.png"),
                    Entry(TRUE, "50", TRUE, "", "e.png") }

ParseFiles ==
    InitialFiles \cup { FileDict([k \in {"A"} |-> StrV(<<NotADigit>>)]) }

InitParse ==
    /\ NoSecond
    /\ NoPage
    /\ NoExample
    /\ delay = DefaultDelay
    /\ sleeps = 0
    /\ mapping_file \in ParseFiles
    /\ json_file = NotWritten
    /\ m3u_file = NotWritten
    /\ listing \in SeqsUpTo(ParseEntrySet, MaxLen)
    /\ run = 1
    /\ pc = "new"
    /\ error = "none"
    /\ max_workers = DefaultMaxWorkers
    /\ fetch_urls = FALSE
    /\ channel_mapping = EmptyDict
    /\ pos = 0
    /\ channels = <<>>
    /\ futures = <<>>
    /\ saves = 0

NextParse ==
    \/ Construct
    \/ FetchListing
    \/ ParseItem
    \/ FinishParse

SpecParse == InitParse /\ [][NextParse]_vars

(***************************************************************************)
(* fetch_m3u8_url on its own, called on any response of up to MaxBody      *)
(* fragments.                                                              *)
(***************************************************************************)
RelM3u8 == Url("live/a.m3u8", TRUE, FALSE, FALSE, FALSE)
AbsM3u8 == Url("http://cdn/b.m3u8", TRUE, FALSE, TRUE, FALSE)
CssM3u8 == Url("css/c.m3u8", TRUE, FALSE, FALSE, TRUE)
LogoM3u8 == Url("http://cdn/logo/d.m3u8", TRUE, FALSE, TRUE, TRUE)
StyleCss == Url("style.css", FALSE, FALSE, FALSE, TRUE)
AppJs == Url("http://cdn/app.js", FALSE, FALSE, TRUE, TRUE)
StreamPhp == Url("embed/stream.php", FALSE, TRUE, FALSE, FALSE)
EmbedHtml == Url("embed.html", FALSE, FALSE, FALSE, FALSE)
EmptyUrl == Url("", FALSE, FALSE, FALSE, FALSE)

QuotedKinds ==
    {"src_attr", "hls_src", "source_tag", "quoted", "data_src", "iframe",
     "iframe_upper"}

\* the fragments the pages are made of
FragSet ==
    {Frag("src_attr", u) : u \in {RelM3u8, CssM3u8, StyleCss}}
    \cup {Frag("hls_src", u) : u \in {RelM3u8, CssM3u8}}
    \cup {Frag("source_tag", u) : u \in {AbsM3u8, CssM3u8}}
    \cup {Frag("quoted", u) : u \in {RelM3u8, StyleCss, AppJs}}
    \cup {Frag("bare", u) : u \in {AbsM3u8, LogoM3u8}}
    \cup {Frag("data_src", u) : u \in {RelM3u8}}
    \cup {Frag("iframe", u) : u \in {EmbedHtml, StyleCss, StreamPhp, EmptyUrl, AppJs}}
    \cup {Frag("iframe_upper", u) : u \in {EmbedHtml, AbsM3u8}}

Pages == {ErrorResponse} \cup {OkResponse(b) : b \in SeqsUpTo(FragSet, MaxBody)}

InitResolve ==
    /\ NoSecond
    /\ NoExample
    /\ delay = DefaultDelay
    /\ sleeps = 0
    /\ page \in Pages
    /\ found = None
    /\ rpc = "call"
    /\ mapping_file = FileMissing
    /\ json_file = NotWritten
    /\ m3u_file = NotWritten
    /\ listing = <<>>
    /\ run = 1
    /\ pc = "off"
    /\ error = "none"
    /\ max_workers = DefaultMaxWorkers
    /\ fetch_urls = TRUE
    /\ channel_mapping = EmptyDict
    /\ pos = 0
    /\ channels = <<>>
    /\ futures = <<>>
    /\ saves = 0

\* a call of fetch_m3u8_url whose request is answered by page
Resolve ==
    /\ rpc = "call"
    /\ found' = FetchM3u8Url(page)
    /\ rpc' = "returned"
    /\ UNCHANGED << files, listing, run, max_workers, fetch_urls, delay, second,
                    example, page, pc, error, channel_mapping, pos, channels,
                    futures >>

NextResolve == Resolve

SpecResolve == InitResolve /\ [][NextResolve]_vars

(***************************************************************************)
(* example_5_create_m3u_from_json (example_usage.py), the playlist writer  *)
(* that gives a channel without a stream URL a placeholder URL.  It reads  *)
(* the catalog file back with json.load and loops over what it gets.       *)
(***************************************************************************)
\* what json.load returns for the file save_json wrote: the object whose
\* keys are "_metadata" and "channels"
JsonLoad(file) ==
    [t |-> "dict", keys |-> <<"_metadata", "channels">>, channels |-> file.content]

\* the values a for loop over v goes through: the keys of a dict, the items
\* of a list
Iterate(v) ==
    IF v.t = "dict"
    THEN [i \in 1..Len(v.keys) |-> [t |-> "str", s |-> v.keys[i]]]
    ELSE [i \in 1..Len(v.items) |-> [t |-> "dict", d |-> v.items[i]]]

\* f"http://example.com/stream/{channel['number']}"
PlaceholderUrl(number) == [t |-> "placeholder", number |-> ToInt(number)]

\* the #EXTINF/URL pair of the loop body for a channel
PairOf(ch) ==
    [logo |-> ch.logo, name |-> ch.name,
     url |-> IF ch.m3u8_url # None THEN ch.m3u8_url ELSE PlaceholderUrl(ch.number)]

\* the loop of example_5: channel.get raises AttributeError on a str
ExampleLines(items) ==
    IF \E i \in 1..Len(items) : items[i].t = "str"
    THEN [raised |-> TRUE, lines |-> <<>>]
    ELSE [raised |-> FALSE, lines |-> [i \in 1..Len(items) |-> PairOf(items[i].d)]]

\* example_5_create_m3u_from_json, run before the scraper or after it
CreateM3uFromJson ==
    /\ pcE = "ready"
    /\ pc \in {"new", "done"}
    /\ IF ~json_file.written
       THEN /\ pcE' = "done"
            /\ UNCHANGED sample_m3u
       ELSE LET r == ExampleLines(Iterate(JsonLoad(json_file))) IN
            IF r.raised
            THEN /\ pcE' = "crashed"
                 /\ UNCHANGED sample_m3u
            ELSE /\ pcE' = "done"
                 /\ sample_m3u' = Written(r.lines)
    /\ UNCHANGED << files, listing, run, max_workers, fetch_urls, delay, second,
                    resolver, pc, error, channel_mapping, pos, channels, futures >>

InitPlaylist ==
    /\ NoSecond
    /\ NoPage
    /\ sample_m3u = NotWritten
    /\ pcE = "ready"
    /\ delay = DefaultDelay
    /\ sleeps = 0
    /\ mapping_file = FileMissing
    /\ json_file = NotWritten
    /\ m3u_file = NotWritten
    /\ listing \in PairListings
    /\ run = 1
    /\ pc = "new"
    /\ error = "none"
    /\ max_workers \in WorkerChoices
    /\ fetch_urls \in BOOLEAN
    /\ channel_mapping = EmptyDict
    /\ pos = 0
    /\ channels = <<>>
    /\ futures = <<>>
    /\ saves = 0

NextPlaylist ==
    \/ Construct
    \/ FetchListing
    \/ ParseItem
    \/ FinishParse
    \/ Submit
    \/ \E i \in 1..Len(futures) : StartTask(i)
    \/ \E i \in 1..Len(futures) : \E resp \in Responses(futures[i].stream_id) : FinishTask(i, resp)
    \/ \E i \in 1..Len(futures) : Collect(i)
    \/ ExitPool
    \/ SaveJson
    \/ SaveM3u
    \/ CreateM3uFromJson

SpecPlaylist == InitPlaylist /\ [][NextPlaylist]_vars

(***************************************************************************)
(* The fan-out under fair scheduling: the main thread goes on, a free      *)
(* thread of the pool takes a waiting task, and every request sent returns *)
(* or times out.  The delay is 0 or the default.                           *)
(***************************************************************************)
InitLive ==
    /\ NoSecond
    /\ NoPage
    /\ NoExample
    /\ delay \in {0, DefaultDelay}
    /\ sleeps = 0
    /\ mapping_file = FileMissing
    /\ json_file = NotWritten
    /\ m3u_file = NotWritten
    /\ listing \in PairListings
    /\ run = 1
    /\ pc = "new"
    /\ error = "none"
    /\ max_workers \in WorkerChoices
    /\ fetch_urls = TRUE
    /\ channel_mapping = EmptyDict
    /\ pos = 0
    /\ channels = <<>>
    /\ futures = <<>>
    /\ saves = 0

\* the request of task i returns or times out
RequestEnds(i) ==
    /\ i \in 1..Len(futures)
    /\ \E resp \in Responses(futures[i].stream_id) : FinishTask(i, resp)

NextLive ==
    \/ Construct
    \/ FetchListing
    \/ ParseItem
    \/ FinishParse
    \/ Submit
    \/ \E i \in 1..Len(futures) : StartTask(i)
    \/ \E i \in 1..MaxLen : RequestEnds(i)
    \/ \E i \in 1..Len(futures) : Collect(i)
    \/ ExitPool
    \/ SaveJson
    \/ SaveM3u

SpecLive ==
    /\ InitLive
    /\ [][NextLive]_vars
    /\ WF_vars(Submit)
    /\ WF_vars(\E i \in 1..Len(futures) : StartTask(i))
    /\ \A i \in 1..MaxLen : WF_vars(RequestEnds(i))
    /\ WF_vars(\E i \in 1..Len(futures) : Collect(i))
    /\ WF_vars(ExitPool)

(***************************************************************************)
(* Properties.                                                             *)
(***************************************************************************)
RunEnded == pc \in {"done", "crashed"}

\* C1: a run that obtained its listing document ends with the registry, the
\* catalog and the playlist all written, whatever mix of registered and new
\* names the listing holds and whatever resolutions fail.
C1_ArtifactsWritten ==
    (RunEnded /\ error # "fetch") =>
        (saves >= 1 /\ json_file.written /\ m3u_file.written)

\* C2: within a run, every call of _assign_channel_number for a name returns
\* the same number: two channels of the same name carry the same number.
C2_SameNumberEveryCall ==
    \A i, j \in 1..Len(channels) :
        channels[i].name = channels[j].name =>
            channels[i].number = channels[j].number

RECURSIVE StrictlyAscending(_)
StrictlyAscending(ns) ==
    \/ Len(ns) <= 1
    \/ /\ ns[1] < ns[2]
       /\ StrictlyAscending(Tail(ns))

\* C3: the channels of the written catalog are in strictly ascending order
\* of their numbers, compared as integers.
C3_CatalogAscending ==
    json_file.written =>
        StrictlyAscending([i \in 1..Len(json_file.content) |->
                               ToInt(json_file.content[i].number)])

(***************************************************************************)
(* The names of the entries a listing prefix keeps, and among them the     *)
(* names that are new with respect to a registry, each once, in document   *)
(* order.                                                                  *)
(***************************************************************************)
NameOf(e) == IF e.alt = NoAlt THEN "Channel " \o e.onclick ELSE e.alt

KeptPositions(doc) == {i \in 1..Len(doc) : Kept(doc[i])}

\* the positions where a name that is not in reg occurs for the first time
FirstNewPositions(doc, reg) ==
    {i \in KeptPositions(doc) :
        /\ NameOf(doc[i]) \notin DOMAIN reg
        /\ \A j \in KeptPositions(doc) : j < i => NameOf(doc[j]) # NameOf(doc[i])}

\* the rank of position i among the first occurrences of new names
NewRank(doc, reg, i) ==
    Cardinality({j \in FirstNewPositions(doc, reg) : j <= i})

\* the largest number of a registry, 0 for an empty one
Largest(reg) == SetMax({ToInt(reg[k]) : k \in DOMAIN reg})

\* the index in self.channels, before the sort, of the entry at position i
ChannelIndex(doc, i) == Cardinality({j \in KeptPositions(doc) : j <= i})

\* the registry a parse of doc that started from reg ends with
ExpectedMapping(doc, reg) ==
    [n \in DOMAIN reg \cup {NameOf(doc[i]) : i \in FirstNewPositions(doc, reg)} |->
        IF n \in DOMAIN reg THEN reg[n]
        ELSE LET i == CHOOSE i \in FirstNewPositions(doc, reg) : NameOf(doc[i]) = n
             IN Str(Largest(reg) + NewRank(doc, reg, i))]

\* C4, during the parse: the k-th new name of the entries handled so far has
\* the number M + k, returned as an int and stored in the registry.
C4_DuringParse ==
    pc = "parse" =>
        LET reg == LoadChannelMapping(mapping_file)
            doc == SubSeq(listing, 1, pos)
        IN /\ channel_mapping = ExpectedMapping(doc, reg)
           /\ \A i \in FirstNewPositions(doc, reg) :
                  channels[ChannelIndex(doc, i)].number =
                      IntV(Largest(reg) + NewRank(doc, reg, i))

\* C4, at the save: the registry written is the one loaded plus the new
\* names with their numbers M + k.
C4_AtSave ==
    (pc = "parse" /\ saves' = saves + 1) =>
        /\ mapping_file'.kind = "dict"
        /\ mapping_file'.dict =
               ExpectedMapping(listing, LoadChannelMapping(mapping_file))

\* C4: in a run that starts from a registry whose largest number is M, the
\* k-th distinct new display name in document order is assigned M + k and
\* inserted into the registry, which is saved so.
C4_NewNamesNumbered == [][C4_DuringParse /\ C4_AtSave]_vars

\* C4 witness: a run that started from a registry whose largest number is 9
\* has numbered two new names 10 and 11 and saved the registry.
C4_Witness ==
    /\ saves = 1
    /\ DOMAIN mapping_file.dict = {"A", "B", "C", "Channel 40"}
    /\ mapping_file.dict["B"] = IntV(9)
    /\ mapping_file.dict["A"] = Str(10)
    /\ mapping_file.dict["Channel 40"] = Str(11)

\* the numbers of a registry are pairwise distinct
DistinctNumbers(reg) ==
    \A a, b \in DOMAIN reg : a # b => ToInt(reg[a]) # ToInt(reg[b])

\* reg2 holds every name of reg1 with its number, and its largest number is
\* not smaller
Extends(reg1, reg2) ==
    /\ \A n \in DOMAIN reg1 : n \in DOMAIN reg2 /\ reg2[n] = reg1[n]
    /\ Largest(reg1) <= Largest(reg2)

C5_Step ==
    /\ DistinctNumbers(channel_mapping) /\ DistinctNumbers(mapping_file.dict)
    /\ (pc = "parse" /\ pc' = "parse") => Extends(channel_mapping, channel_mapping')
    /\ mapping_file.kind = "dict" => Extends(mapping_file.dict, mapping_file'.dict)

\* C5: from a registry of pairwise distinct numbers, no two names ever share
\* a number, no name is removed from the registry and the largest number
\* never decreases, in memory during the parse and on disk across the runs.
C5_MonotonicUnique == [][C5_Step]_vars

\* C5 witness: a second run has added a name to a registry that the first
\* run had saved.
C5_Witness ==
    /\ run = 2
    /\ pc = "parse"
    /\ Cardinality(DOMAIN channel_mapping) > Cardinality(DOMAIN mapping_file.dict)
    /\ mapping_file.dict # EmptyDict

\* every task of the fan-out has been taken by the main thread
AllCollected ==
    /\ pc = "collect"
    /\ \A i \in 1..Len(futures) : futures[i].state = "collected"

\* C7: when the fan-out ends, every parsed record has had exactly one
\* request; and the catalog holds exactly one entry per parsed record,
\* failed ones included.
C7_OneAttemptOneEntry ==
    /\ \A i \in 1..Len(futures) : futures[i].attempts <= 1
    /\ AllCollected =>
          /\ Len(futures) = Len(channels)
          /\ \A i \in 1..Len(futures) : futures[i].attempts = 1
    /\ (json_file.written /\ fetch_urls) =>
          /\ Len(json_file.content) = Cardinality(KeptPositions(listing))
          /\ \A i \in KeptPositions(listing) :
                 \E c \in 1..Len(json_file.content) :
                     /\ json_file.content[c].name = NameOf(listing[i])
                     /\ json_file.content[c].stream_id = listing[i].onclick

\* C7 witness: a catalog written after a fan-out in which a request failed
\* and another succeeded.
C7_Witness ==
    /\ json_file.written /\ fetch_urls
    /\ \E c, d \in 1..Len(json_file.content) :
          /\ json_file.content[c].m3u8_url = None
          /\ json_file.content[d].m3u8_url # None

\* what a task submitted with stream token tok can return
TaskResults(tok) == {FetchM3u8Url(r) : r \in Responses(tok)}

\* C8: every channel's m3u8_url is the result of the task submitted with the
\* channel's own stream_id.
C8_OwnResult ==
    /\ \A c \in 1..Len(channels) :
          channels[c].m3u8_url \in TaskResults(channels[c].stream_id)
    /\ \A i \in 1..Len(futures) :
          /\ futures[i].stream_id = channels[i].stream_id
          /\ futures[i].state = "collected" =>
                 channels[i].m3u8_url = futures[i].result

\* C8 witness: two channels of different stream_id, resolved, the task
\* submitted second having completed and been taken first.
C8_Witness ==
    /\ Len(futures) >= 2
    /\ futures[2].state = "collected" /\ futures[2].result # None
    /\ futures[1].state = "running"
    /\ futures[1].stream_id # futures[2].stream_id

\* C9: at most max_workers requests are in flight.
C9_BoundedInFlight == Cardinality(Running) <= max_workers

\* C9 witness: max_workers requests in flight and a task waiting.
C9_Witness ==
    /\ Cardinality(Running) = max_workers
    /\ Queued # {}

\* both scrapers have handled every entry of their listings
BothParsed ==
    /\ pc = "parse" /\ pos = Len(listing)
    /\ pcB = "parse" /\ posB = Len(listingB)

\* the (name, number) pairs of a list of channels
NumbersOf(chs) == {<<chs[i].name, ToInt(chs[i].number)>> : i \in 1..Len(chs)}

\* the two scrapers gave every name the same number
SameNumbers ==
    /\ channel_mapping = channel_mappingB
    /\ NumbersOf(channels) = NumbersOf(channelsB)

\* the new names of a listing with their ranks of first occurrence
NewOrder(doc, reg) ==
    {<<NewRank(doc, reg, i), NameOf(doc[i])>> : i \in FirstNewPositions(doc, reg)}

\* C6 as stated: two runs from the same registry whose listings hold the
\* same set of display names assign the same number to every name.
C6_SameNamesSameNumbers ==
    (BothParsed /\ Names(listing) = Names(listingB)) => SameNumbers

\* C6, amended: two runs from the same registry whose listings hold the same
\* display names, the new ones first occurring in the same order, assign the
\* same number to every name.
C6_SameOrderSameNumbers ==
    LET reg == LoadChannelMapping(mapping_file) IN
    (/\ BothParsed
     /\ Names(listing) = Names(listingB)
     /\ NewOrder(listing, reg) = NewOrder(listingB, reg)) => SameNumbers

\* C6 witness: two different listings with the same two new names in the
\* same order of first occurrence, both parsed.
C6_Witness ==
    LET reg == LoadChannelMapping(mapping_file) IN
    /\ BothParsed
    /\ listing # listingB
    /\ Cardinality(FirstNewPositions(listing, reg)) >= 2
    /\ NewOrder(listing, reg) = NewOrder(listingB, reg)
    /\ reg # EmptyDict

(***************************************************************************)
(* The candidates of the scan of fetch_m3u8_url that qualify: a pattern    *)
(* and one of its matches, which passes the stream filter and holds no     *)
(* excluded fragment.  The first is the least in the order of the scan:    *)
(* by pattern, then by place in the body.                                  *)
(***************************************************************************)
Candidate(body, q) == FindAll(m3u8_patterns[q[1]], body)[q[2]]

Qualifying(body) ==
    {q \in (1..Len(m3u8_patterns)) \X (1..Len(body)) :
        /\ q[2] <= Len(FindAll(m3u8_patterns[q[1]], body))
        /\ StreamLike(Candidate(body, q))
        /\ ~Candidate(body, q).excl}

FirstQualifying(body) ==
    CHOOSE q \in Qualifying(body) :
        \A r \in Qualifying(body) :
            q[1] < r[1] \/ (q[1] = r[1] /\ q[2] <= r[2])

\* a URL made absolute against the base address
Absolute(u) ==
    IF u.http THEN u
    ELSE [u EXCEPT !.text = "http://103.144.89.251/" \o u.text, !.http = TRUE]

\* the sources of the embedded frames of a body, made absolute
FrameSources(body) ==
    {Absolute(body[b].url) : b \in {i \in 1..Len(body) : body[i].kind = "iframe"}}

\* every URL of the body is a quoted URL ending in .css or .js
OnlyCssJs(body) ==
    /\ body # <<>>
    /\ \A b \in 1..Len(body) :
          /\ body[b].kind \in QuotedKinds
          /\ body[b].url.excl /\ ~body[b].url.m3u8

Returned == rpc = "returned" /\ page.status = "ok"

Frames(body) ==
    {i \in 1..Len(body) :
        body[i].kind \in {"iframe", "iframe_upper"} /\ body[i].url.text # ""}

FirstFrame(body) == CHOOSE i \in Frames(body) : \A j \in Frames(body) : i <= j

\* C11: when no candidate of the scan qualifies, fetch_m3u8_url returns the
\* source of the first embedded frame of the body, made absolute, and None
\* when the body has no embedded frame.
C11_FallbackFirstFrame ==
    (Returned /\ Qualifying(page.body) = {}) =>
        found = IF Frames(page.body) # {}
                THEN Absolute(page.body[FirstFrame(page.body)].url)
                ELSE None

\* an entry with a recognizable stream token
HasToken(e) == e.link /\ e.onclick # NoToken
TokenPositions(doc) == {i \in 1..Len(doc) : HasToken(doc[i])}

\* an entry with a display name: an <img> with a non-empty alt
HasName(e) == e.img /\ e.alt # NoAlt /\ e.alt # ""

\* the i-th of the entries of doc that have a stream token
NthToken(doc, i) ==
    CHOOSE p \in TokenPositions(doc) :
        Cardinality({q \in TokenPositions(doc) : q <= p}) = i

\* the registry loaded holds numbers only
NumbersOnly(f) ==
    \A k \in DOMAIN LoadChannelMapping(f) : IsNumeral(LoadChannelMapping(f)[k])

\* C12: while parse_html runs on a registry of numbers, it does not raise,
\* and its records are, in document order, one per entry handled that has a
\* stream token, none for the others; a record has the entry's token, and
\* the entry's display name or, when the entry has none, the non-empty
\* synthetic name made of the token.
C12_ParseRobust ==
    (pc = "parse" /\ NumbersOnly(mapping_file)) =>
        LET doc == SubSeq(listing, 1, pos) IN
        /\ error = "none"
        /\ Len(channels) = Cardinality(TokenPositions(doc))
        /\ \A i \in 1..Len(channels) :
              LET e == doc[NthToken(doc, i)] IN
              /\ channels[i].stream_id = e.onclick
              /\ channels[i].name # ""
              /\ channels[i].name =
                     IF HasName(e) THEN e.alt ELSE "Channel " \o e.onclick

\* the channels of a catalog that have a stream URL
Resolved(chs) == {i \in 1..Len(chs) : chs[i].m3u8_url # None}

\* the i-th of them
NthResolved(chs, i) ==
    CHOOSE p \in Resolved(chs) : Cardinality({q \in Resolved(chs) : q <= p}) = i

\* C13: over the catalog a run has written, save_m3u writes, in catalog
\* order, one pair for each channel that has a stream URL and nothing for the
\* others; and example_5_create_m3u_from_json does not raise and writes one
\* pair for every channel, with the channel's stream URL or else the
\* placeholder URL made of its number.
C13_TwoModes ==
    /\ (m3u_file.written /\ json_file.written) =>
          LET chs == json_file.content IN
          /\ Len(m3u_file.content) = Cardinality(Resolved(chs))
          /\ \A i \in 1..Len(m3u_file.content) :
                LET ch == chs[NthResolved(chs, i)] IN
                m3u_file.content[i] =
                    [logo |-> ch.logo, name |-> ch.name, url |-> ch.m3u8_url]
    /\ pcE # "crashed"
    /\ (pcE = "done" /\ pc = "done" /\ json_file.written) =>
          (sample_m3u.written =>
              LET chs == json_file.content IN
              /\ Len(sample_m3u.content) = Len(chs)
              /\ \A i \in 1..Len(chs) :
                    /\ sample_m3u.content[i].name = chs[i].name
                    /\ sample_m3u.content[i].url =
                          IF chs[i].m3u8_url # None THEN chs[i].m3u8_url
                          ELSE [t |-> "placeholder", number |-> ToInt(chs[i].number)])

\* C14: a run that obtained its listing writes the whole registry exactly
\* once: not before the parse loop has handled the last entry, before the
\* first request of the fan-out is sent, and also when no name was added.
C14_SavedOnceBeforeFanOut ==
    /\ saves <= 1
    /\ saves = 1 =>
          /\ pos = Len(listing)
          /\ mapping_file = FileDict(channel_mapping)
    /\ (\E i \in 1..Len(futures) : futures[i].attempts > 0) => saves = 1
    /\ (RunEnded /\ error # "fetch") => saves = 1

\* the mapping file holds a registry: an object whose values are numbers,
\* as int or as str
HoldsRegistry(f) == f.kind = "dict" /\ NumbersOnly(f)

\* C15: from the load to the end of the parse loop nothing is raised; when
\* the mapping file is missing or does not hold a registry, the run goes on
\* from the empty registry, and when it holds numbers, typed int or str, the
\* run goes on from them; in both cases the new names are numbered from that
\* registry.
C15_LoadNeverFatal ==
    pc \in {"fetch", "parse"} =>
        LET doc == SubSeq(listing, 1, pos)
            reg == IF HoldsRegistry(mapping_file) THEN mapping_file.dict
                   ELSE EmptyDict
        IN /\ error = "none"
           /\ channel_mapping = ExpectedMapping(doc, reg)

\* every task has been taken and its result stands in its channel
EveryResultRecorded ==
    /\ AllCollected
    /\ Len(futures) = Len(channels)
    /\ \A i \in 1..Len(futures) : channels[i].m3u8_url = futures[i].result

\* the fan-out has ended
FanOutEnded == pc \in {"save_json", "save_m3u", "done"}

\* the main thread has slept once if delay > 0 and the fan-out has ended,
\* and not at all otherwise
SleptOnceAfter ==
    sleeps = IF FanOutEnded /\ delay > 0 THEN 1 ELSE 0

\* whatever the other tasks do, a task that waits can start as soon as a
\* thread is free, a request that is in flight can end, and a completed
\* task can be taken
NeverBlocked ==
    /\ (pc \in {"submit", "collect"} /\ Queued # {} /\ Cardinality(Running) < max_workers)
          => ENABLED (\E i \in 1..Len(futures) : StartTask(i))
    /\ \A i \in Running : ENABLED RequestEnds(i)
    /\ \A i \in 1..Len(futures) :
          (pc = "collect" /\ futures[i].state = "done") => ENABLED Collect(i)

\* no step cancels a task or takes its result back
NeverCancelled ==
    \A i \in 1..Len(futures) :
        \/ futures' = <<>>
        \/ /\ futures[i].state = "queued" => futures'[i].state \in {"queued", "running"}
           /\ futures[i].state = "running" => futures'[i].state \in {"running", "done"}
           /\ futures[i].state = "done" =>
                 /\ futures'[i].state \in {"done", "collected"}
                 /\ futures'[i].result = futures[i].result
           /\ futures[i].state = "collected" => futures'[i] = futures[i]

Identity(ch) ==
    [number |-> ch.number, name |-> ch.name, stream_id |-> ch.stream_id,
     logo |-> ch.logo]

\* C17: a step taken while the fan-out runs, from the submission of the
\* first task to the exit of the pool, leaves the registry in memory and on
\* disk as they are, and leaves the channels as they are, in number, in
\* order and in every field but m3u8_url.
C17_Step ==
    pc \in {"submit", "collect"} =>
        /\ channel_mapping' = channel_mapping
        /\ mapping_file' = mapping_file
        /\ saves' = saves
        /\ Len(channels') = Len(channels)
        /\ \A c \in 1..Len(channels) : Identity(channels'[c]) = Identity(channels[c])

C17_FanOutOnlySetsUrl == [][C17_Step]_vars

\* C17 witness: in the second run, on a registry of two names, a task has
\* set the stream URL of a channel while another request is in flight.
C17_Witness ==
    /\ run = 2
    /\ pc = "collect"
    /\ Cardinality(DOMAIN channel_mapping) >= 2
    /\ Running # {}
    /\ \E c \in 1..Len(channels) : channels[c].m3u8_url # None

\* parse_html has returned
ParseCompleted == pc \in {"submit", "collect", "save_json", "save_m3u", "done"}

\* a list of channels agrees with a registry: every name is a key, and the
\* channel's number is, as an integer, the number of the name
Agrees(chs, reg) ==
    \A c \in 1..Len(chs) :
        /\ chs[c].name \in DOMAIN reg
        /\ ToInt(chs[c].number) = ToInt(reg[chs[c].name])

====
